---- MODULE Spec2Model ----
(***************************************************************************)
(* Model of the hotel booking servers of taanzzz/hotelDB-server.           *)
(*                                                                         *)
(*   src/api/index.js      the single-date server: users, roles, rooms,    *)
(*                         bookings keyed by (roomId, date)                *)
(*   src/unnamed/part_001  (second program, lines 185-522) the date-range  *)
(*                         server: bookings are [checkIn, checkOut)        *)
(*                                                                         *)
(* Bookings that carry a set of dates are handled by no file under src/;   *)
(* that operation is written from spec.md and kept apart (SpecDateSet).    *)
(*                                                                         *)
(* A collection of the document store is a set of records; an ObjectId is  *)
(* a natural number handed out by a counter, 0 stands for a string that is *)
(* not a valid ObjectId.  A date is the day number of its 'YYYY-MM-DD'     *)
(* string: the store compares those strings in their binary order, which   *)
(* is the order of the days.                                               *)
(***************************************************************************)
EXTENDS Integers, FiniteSets, Sequences, TLC

\* Bounds of the model
MaxBookings == 2   \* ObjectIds the single-date server hands out to bookings
MaxDate == 2       \* calendar dates of the single-date server
MaxRanges == 2     \* ObjectIds the date-range server hands out to bookings
MaxDay == 4        \* calendar days of the date-range server
MaxUsers == 3      \* ObjectIds the single-date server hands out to users
MaxRoomDocs == 1   \* ObjectIds the single-date server hands out to rooms
MaxReviews == 1    \* ObjectIds handed out to reviews
MaxGroups == 2     \* group identifiers handed out to date-set bookings
MaxSetLen == 2     \* dates in one date-set request

Rooms == {"r1", "r2"}
Emails == {"a@x", "b@x"}
Dates == 1..MaxDate
BookingIds == 0..MaxBookings
Days == 1..MaxDay
RangeIds == 0..MaxRanges
UserIds == 0..MaxUsers
\* 'user' and 'admin' are the roles the code writes itself; "guest" stands for
\* any other value a request body may carry.
Roles == {"user", "admin", "guest"}
\* The date lists of a date-set request: distinct dates, in the order sent.
DateLists ==
  {ds \in UNION {[1..n -> Dates] : n \in 1..MaxSetLen} :
     \A i \in DOMAIN ds, j \in DOMAIN ds : ds[i] = ds[j] => i = j}
RoomDocIds == 0..MaxRoomDocs
\* The bodies of POST /rooms and PATCH /rooms/:id.
RoomData == {"d1", "d2"}
\* The names PATCH /user/profile may carry ('N/A' is POST /jwt's default).
ProfileNames == {"N/A", "n1"}
\* The handlers of the single-date server that may be in flight together.
Procs == {1, 2}

VARIABLES
  bookings,       \* single-date server: bookingsCollection
  nextBookingId,  \* single-date server: the next ObjectId of a booking
  rbookings,      \* date-range server: bookingsCollection
  nextRangeId,    \* date-range server: the next ObjectId of a booking
  users,          \* single-date server: usersCollection
  nextUserId,     \* single-date server: the next ObjectId of a user
  issued,         \* the payloads of the tokens POST /jwt has signed
  pc,             \* per handler in flight: the await it is at
  req,            \* per handler in flight: the body of its request
  resp,           \* per handler: the status of its last response
  roomsCollection,    \* single-date server: roomsCollection
  nextRoomId,         \* single-date server: the next ObjectId of a room
  reviewsCollection,  \* reviewsCollection (both servers have one)
  nextReviewId,       \* the next ObjectId of a review
  gbookings,      \* date-set bookings: one record per booked date
  nextGroupId,    \* date-set bookings: the next group identifier
  last            \* the last request served and its response

bookingVars == <<bookings, nextBookingId>>
rangeVars == <<rbookings, nextRangeId>>
userVars == <<users, nextUserId, issued>>
procVars == <<pc, req, resp>>
catalogVars == <<roomsCollection, nextRoomId, reviewsCollection, nextReviewId>>
groupVars == <<gbookings, nextGroupId>>
vars == <<bookingVars, rangeVars, userVars, procVars,
               catalogVars, groupVars, last>>

-----------------------------------------------------------------------------
(* Requests and responses *)

\* The Authorization header of a request: absent, a token that fails
\* jwt.verify, or a verified token with its decoded email.
Tokens ==
  {[hdr |-> "none", email |-> ""], [hdr |-> "bad", email |-> ""]}
    \cup {[hdr |-> "ok", email |-> e] : e \in Emails}

\* verifyToken without the test of the header: a request with no
\* Authorization header goes on to the handler.
VerifyTokenNoHeaderCheck(tok) ==
  IF tok.hdr = "bad" THEN 403 ELSE 0

\* verifyToken: 401 without a header, 403 when verification fails, else next()
\* (0: the route handler runs with req.decoded = the token's payload).
VerifyToken(tok) ==
  IF tok.hdr = "none" THEN 401
  ELSE IF tok.hdr = "bad" THEN 403
  ELSE 0

\* The tokens verifyToken lets through to the route handler.
Verified == {tok \in Tokens : VerifyToken(tok) = 0}

\* No token payload.
NoPayload == [email |-> "", role |-> ""]

\* A request without an Authorization header.
NoHeader == [hdr |-> "none", email |-> "", role |-> ""]

\* The record of a served request: the route, the Authorization header and
\* the email it decodes to, the arguments the handler read, the status and
\* the documents sent.
Served(op, tok, id, roomId, email, date, status) ==
  [op |-> op, hdr |-> tok.hdr, caller |-> tok.email, id |-> id,
   roomId |-> roomId, email |-> email, date |-> date, dates |-> <<>>,
   freed |-> <<>>, role |-> "", token |-> NoPayload, status |-> status,
   data |-> {}]

NoRequest ==
  [op |-> "none", hdr |-> "", caller |-> "", id |-> 0, roomId |-> "",
   email |-> "", date |-> 0, dates |-> <<>>, freed |-> <<>>, role |-> "",
   token |-> NoPayload, status |-> 0, data |-> {}]

\* A request to a route guarded by verifyToken that the guard answers itself:
\* the handler is not run and the body is not read.
VerifyTokenRejects(op, tok) ==
  /\ VerifyToken(tok) # 0
  /\ last' = Served(op, tok, 0, "", "", 0, VerifyToken(tok))
  /\ UNCHANGED <<bookingVars, rangeVars, userVars, procVars,
               catalogVars, groupVars>>

-----------------------------------------------------------------------------
(* The single-date server, src/api/index.js: one handler at a time *)

\* bookingsCollection.findOne({ roomId, email, date })
ExistingUserBooking(roomId, email, date) ==
  {b \in bookings : b.roomId = roomId /\ b.email = email /\ b.date = date}

\* bookingsCollection.findOne({ roomId, date })
ExistingRoomBooking(roomId, date) ==
  {b \in bookings : b.roomId = roomId /\ b.date = date}

\* The status the handler of POST /bookings answers with in the current state.
PostBookingStatus(roomId, email, date) ==
  IF ExistingUserBooking(roomId, email, date) # {} THEN 400
  ELSE IF ExistingRoomBooking(roomId, date) # {} THEN 409
  ELSE 200

\* The (roomId, date) of the stored booking with the id.
HeldBy(id) ==
  LET b == CHOOSE x \in bookings : x.id = id IN <<b.roomId, b.date>>

\* History kept with the record of a POST /bookings: the (roomId, date) the
\* request before it released (a successful DELETE, or a PATCH to another
\* date), when this request asks for that (roomId, date).
FreedForRequest(roomId, date) ==
  IF last.op \in {"delete", "patch"} /\ last.freed = <<roomId, date>>
    THEN last.freed
    ELSE <<>>

\* POST /bookings as replaceOne({ roomId, email }, booking, { upsert: true }):
\* the caller's earlier booking of the room is overwritten.
PostBookingReplaces(tok, roomId, email, date) ==
  LET status == PostBookingStatus(roomId, email, date) IN
  /\ VerifyToken(tok) = 0
  /\ status = 200 => nextBookingId <= MaxBookings
  /\ IF status = 200
       THEN /\ bookings' =
                 {b \in bookings : ~(b.roomId = roomId /\ b.email = email)}
                   \cup {[id |-> nextBookingId, roomId |-> roomId,
                           email |-> email, date |-> date]}
            /\ nextBookingId' = nextBookingId + 1
       ELSE UNCHANGED <<bookings, nextBookingId>>
  /\ last' = Served("post", tok, 0, roomId, email, date, status)
  /\ UNCHANGED <<rangeVars, userVars, procVars,
               catalogVars, groupVars>>

\* app.post("/bookings"): the body's roomId, email and date are stored as sent.
PostBooking(tok, roomId, email, date) ==
  LET status == PostBookingStatus(roomId, email, date) IN
  /\ VerifyToken(tok) = 0
  /\ status = 200 => nextBookingId <= MaxBookings
  /\ IF status = 200
       THEN /\ bookings' = bookings \cup
                 {[id |-> nextBookingId, roomId |-> roomId,
                   email |-> email, date |-> date]}
            /\ nextBookingId' = nextBookingId + 1
       ELSE UNCHANGED <<bookings, nextBookingId>>
  /\ last' = [Served("post", tok, 0, roomId, email, date, status)
                EXCEPT !.freed = FreedForRequest(roomId, date)]
  /\ UNCHANGED <<rangeVars, userVars, procVars,
               catalogVars, groupVars>>

\* The status the handler of DELETE /bookings/:id answers with in the current
\* state: new ObjectId throws on a malformed id, then findOne, then the owner
\* check.
DeleteBookingStatus(tok, id) ==
  IF id = 0 THEN 500
  ELSE IF {b \in bookings : b.id = id} = {} THEN 404
  ELSE IF \E b \in bookings : b.id = id /\ b.email # tok.email THEN 403
  ELSE 200

\* DELETE /bookings/:id with deleteMany({ email: userEmail }) after the owner
\* check: every booking of the caller goes with the cancelled one.
DeleteBookingsOfCaller(tok, id) ==
  LET status == DeleteBookingStatus(tok, id) IN
  /\ VerifyToken(tok) = 0
  /\ bookings' = IF status = 200 THEN {b \in bookings : b.email # tok.email}
                                 ELSE bookings
  /\ last' = Served("delete", tok, id, "", "", 0, status)
  /\ UNCHANGED <<nextBookingId, rangeVars, userVars, procVars,
               catalogVars, groupVars>>

\* DELETE /bookings/:id that keeps the document and marks it cancelled
\* (updateOne with $set instead of deleteOne).
DeleteBookingSoft(tok, id) ==
  LET status == DeleteBookingStatus(tok, id) IN
  /\ VerifyToken(tok) = 0
  /\ bookings' = IF status = 200
                   THEN {IF b.id = id THEN [b EXCEPT !.email = "cancelled"]
                                      ELSE b : b \in bookings}
                   ELSE bookings
  /\ last' = [Served("delete", tok, id, "", "", 0, status)
                EXCEPT !.freed = IF status = 200 THEN HeldBy(id) ELSE <<>>]
  /\ UNCHANGED <<nextBookingId, rangeVars, userVars, procVars,
               catalogVars, groupVars>>

\* app.delete("/bookings/:id"); the record of the request keeps the
\* (roomId, date) a successful one released.
DeleteBooking(tok, id) ==
  LET status == DeleteBookingStatus(tok, id) IN
  /\ VerifyToken(tok) = 0
  /\ bookings' = IF status = 200 THEN {b \in bookings : b.id # id} ELSE bookings
  /\ last' = [Served("delete", tok, id, "", "", 0, status)
                EXCEPT !.freed = IF status = 200 THEN HeldBy(id) ELSE <<>>]
  /\ UNCHANGED <<nextBookingId, rangeVars, userVars, procVars,
               catalogVars, groupVars>>

\* PATCH /bookings/:id: findOne({ roomId: req.body.roomId, date, _id: { $ne: id } })
PatchExistingBooking(id, roomId, date) ==
  {b \in bookings : b.roomId = roomId /\ b.date = date /\ b.id # id}

\* The status the handler of PATCH /bookings/:id answers with in the current
\* state (updateOne answers 200 also when no document has the id).
PatchBookingStatus(id, roomId, date) ==
  IF id = 0 THEN 500
  ELSE IF PatchExistingBooking(id, roomId, date) # {} THEN 409
  ELSE 200

\* app.patch("/bookings/:id"): updateOne({ _id }, { $set: { date } }); the
\* record of the request keeps the (roomId, date) the booking left.
PatchBooking(tok, id, roomId, date) ==
  LET status == PatchBookingStatus(id, roomId, date) IN
  /\ VerifyToken(tok) = 0
  /\ bookings' = IF status = 200
                   THEN {IF b.id = id THEN [b EXCEPT !.date = date] ELSE b :
                           b \in bookings}
                   ELSE bookings
  /\ last' = [Served("patch", tok, id, roomId, "", date, status)
                EXCEPT !.freed =
                  IF status = 200
                       /\ \E b \in bookings : b.id = id /\ b.date # date
                    THEN HeldBy(id)
                    ELSE <<>>]
  /\ UNCHANGED <<nextBookingId, rangeVars, userVars, procVars,
               catalogVars, groupVars>>

\* bookingsCollection.find({ email }).toArray() on a collection
BookingsByEmail(collection, email) ==
  {b \in collection : b.email = email}

\* What the handlers of GET /bookings?email= and GET /bookings/user/:email
\* answer over a collection: 403 unless req.decoded.email is the email asked
\* for, else the bookings found under it.
GetBookingsResponse(collection, tok, email) ==
  IF tok.email # email
    THEN [status |-> 403, data |-> {}]
    ELSE [status |-> 200, data |-> BookingsByEmail(collection, email)]

\* What the handler of GET /booking/:id answers over a collection: 400 for
\* an id that is no ObjectId, 404 when findOne finds none, 403 when the
\* booking found is stored under another email, else the booking.
GetBookingResponse(collection, tok, id) ==
  LET booking == {b \in collection : b.id = id} IN
  IF id = 0 THEN [status |-> 400, data |-> {}]
  ELSE IF booking = {} THEN [status |-> 404, data |-> {}]
  ELSE IF \E b \in booking : tok.email # b.email
    THEN [status |-> 403, data |-> {}]
  ELSE [status |-> 200, data |-> booking]

\* app.get("/bookings")
GetBookings(tok, email) ==
  LET response == GetBookingsResponse(bookings, tok, email) IN
  /\ VerifyToken(tok) = 0
  /\ last' = [Served("list", tok, 0, "", email, 0, response.status)
                EXCEPT !.data = response.data]
  /\ UNCHANGED <<bookingVars, rangeVars, userVars, procVars,
                 catalogVars, groupVars>>

\* app.get("/bookings/user/:email")
GetUserBookings(tok, email) ==
  LET response == GetBookingsResponse(bookings, tok, email) IN
  /\ VerifyToken(tok) = 0
  /\ last' = [Served("ulist", tok, 0, "", email, 0, response.status)
                EXCEPT !.data = response.data]
  /\ UNCHANGED <<bookingVars, rangeVars, userVars, procVars,
                 catalogVars, groupVars>>

\* app.get("/booking/:id")
GetBooking(tok, id) ==
  LET response == GetBookingResponse(bookings, tok, id) IN
  /\ VerifyToken(tok) = 0
  /\ last' = [Served("get", tok, id, "", "", 0, response.status)
                EXCEPT !.data = response.data]
  /\ UNCHANGED <<bookingVars, rangeVars, userVars, procVars,
                 catalogVars, groupVars>>

-----------------------------------------------------------------------------
(* The date-range server, src/unnamed/part_001 lines 185-522: one handler at
   a time *)

\* The $or query without its third clause: a stored booking that strictly
\* contains the request goes unnoticed.
RangeOrQueryNoContaining(b, checkIn, checkOut) ==
  \/ (b.checkIn < checkOut /\ b.checkIn >= checkIn)
  \/ (b.checkOut > checkIn /\ b.checkOut <= checkOut)

\* The $or query with closed bounds ($lte and $gte throughout): the check-out
\* day counts as booked.
RangeOrQueryClosed(b, checkIn, checkOut) ==
  \/ (b.checkIn <= checkOut /\ b.checkIn >= checkIn)
  \/ (b.checkOut >= checkIn /\ b.checkOut <= checkOut)
  \/ (b.checkIn <= checkIn /\ b.checkOut >= checkOut)

\* The $or query of POST /bookings/range on a stored booking b and the
\* request's checkIn and checkOut.
RangeOrQuery(b, checkIn, checkOut) ==
  \/ (b.checkIn < checkOut /\ b.checkIn >= checkIn)
  \/ (b.checkOut > checkIn /\ b.checkOut <= checkOut)
  \/ (b.checkIn <= checkIn /\ b.checkOut >= checkOut)

\* bookingsCollection.findOne({ roomId, $or: [...] })
ExistingRangeBooking(roomId, checkIn, checkOut) ==
  {b \in rbookings : b.roomId = roomId /\ RangeOrQuery(b, checkIn, checkOut)}

\* The status the handler of POST /bookings/range answers with in the current
\* state.
PostBookingRangeStatus(roomId, checkIn, checkOut) ==
  IF ExistingRangeBooking(roomId, checkIn, checkOut) # {} THEN 409 ELSE 201

\* app.post("/bookings/range"): one document per accepted request, with the
\* body's roomId, email, checkIn and checkOut.
PostBookingRange(tok, roomId, email, checkIn, checkOut) ==
  LET status == PostBookingRangeStatus(roomId, checkIn, checkOut) IN
  /\ VerifyToken(tok) = 0
  /\ status = 201 => nextRangeId <= MaxRanges
  /\ IF status = 201
       THEN /\ rbookings' = rbookings \cup
                 {[id |-> nextRangeId, roomId |-> roomId, email |-> email,
                   checkIn |-> checkIn, checkOut |-> checkOut]}
            /\ nextRangeId' = nextRangeId + 1
       ELSE UNCHANGED <<rbookings, nextRangeId>>
  /\ last' = Served("rpost", tok, 0, roomId, "", 0, status)
  /\ UNCHANGED <<bookingVars, userVars, procVars,
               catalogVars, groupVars>>

\* The while loop of GET /bookings/room/:roomId/dates on one booking: the
\* days from currentDate on that are before lastDate (the check-out day).
RECURSIVE DatesUntil(_, _)
DatesUntil(currentDate, lastDate) ==
  IF currentDate < lastDate
    THEN <<currentDate>> \o DatesUntil(currentDate + 1, lastDate)
    ELSE <<>>

\* bookings.forEach over the result of find({ roomId }), which comes in the
\* order of insertion: the bookings with an id from `id` on.
RECURSIVE AllBookedDatesFrom(_, _)
AllBookedDatesFrom(roomId, id) ==
  IF id >= nextRangeId THEN <<>>
  ELSE LET found == {b \in rbookings : b.id = id /\ b.roomId = roomId}
           dates == IF found = {} THEN <<>>
                    ELSE LET b == CHOOSE x \in found : TRUE
                         IN DatesUntil(b.checkIn, b.checkOut)
       IN dates \o AllBookedDatesFrom(roomId, id + 1)

\* The list GET /bookings/room/:roomId/dates answers with.
AllBookedDates(roomId) == AllBookedDatesFrom(roomId, 1)

\* app.get("/bookings/room/:roomId/dates") of the date-range server: the
\* route has no guard and writes nothing.
GetRoomDates(roomId) ==
  /\ last' = [Served("rdates", NoHeader, 0, roomId, "", 0, 200)
                EXCEPT !.dates = AllBookedDates(roomId)]
  /\ UNCHANGED <<bookingVars, rangeVars, userVars, procVars,
                 catalogVars, groupVars>>

\* The status the handler of DELETE /bookings/:id of the date-range server
\* answers with: deleteOne({ _id }) and its deletedCount decide.
RangeDeleteBookingStatus(id) ==
  IF id = 0 THEN 500
  ELSE IF {b \in rbookings : b.id = id} = {} THEN 404
  ELSE 200

\* app.delete("/bookings/:id") of the date-range server
RangeDeleteBooking(tok, id) ==
  LET status == RangeDeleteBookingStatus(id) IN
  /\ VerifyToken(tok) = 0
  /\ rbookings' = IF status = 200 THEN {b \in rbookings : b.id # id}
                                  ELSE rbookings
  /\ last' = Served("rdelete", tok, id, "", "", 0, status)
  /\ UNCHANGED <<nextRangeId, bookingVars, userVars, procVars,
               catalogVars, groupVars>>

-----------------------------------------------------------------------------
(* Date-set bookings.  No file under src/ takes a request with a set of
   dates; the operation is written from spec.md, "Core algorithm: booking
   conflict check": one record per date, the records of a request sharing a
   group identifier *)

\* The dates booked for a room.
BookedDates(roomId) == {b.date : b \in {x \in gbookings : x.roomId = roomId}}

\* The positions of a request's dates that are booked for the room.
ConflictingAt(roomId, dates) ==
  {i \in DOMAIN dates : dates[i] \in BookedDates(roomId)}

\* The first conflicting date found, going through the request's dates.
FirstConflict(roomId, dates) ==
  dates[CHOOSE i \in ConflictingAt(roomId, dates) :
          \A j \in ConflictingAt(roomId, dates) : i <= j]

\* A date-set request that stores its dates one by one and stops at the
\* first conflict: the dates before it stay stored.
PostBookingDatesOneByOne(tok, roomId, email, dates) ==
  LET conflict == ConflictingAt(roomId, dates) # {}
      stored == IF conflict
                  THEN {dates[i] : i \in {k \in DOMAIN dates :
                          \A j \in ConflictingAt(roomId, dates) : k < j}}
                  ELSE {dates[i] : i \in DOMAIN dates}
  IN
  /\ VerifyToken(tok) = 0
  /\ nextGroupId <= MaxGroups
  /\ gbookings' = gbookings \cup
       {[groupId |-> nextGroupId, roomId |-> roomId, email |-> email,
         date |-> d] : d \in stored}
  /\ nextGroupId' = nextGroupId + 1
  /\ last' = [Served("gpost", tok, 0, roomId, email,
                     IF conflict THEN FirstConflict(roomId, dates) ELSE 0,
                     IF conflict THEN 409 ELSE 201)
                EXCEPT !.dates = dates]
  /\ UNCHANGED <<bookingVars, rangeVars, userVars, procVars, catalogVars>>

\* A date-set request: rejected, naming the first conflicting date, when one
\* of its dates is booked for the room; else all its dates are stored as one
\* group.
PostBookingDates(tok, roomId, email, dates) ==
  LET conflict == ConflictingAt(roomId, dates) # {} IN
  /\ VerifyToken(tok) = 0
  /\ ~conflict => nextGroupId <= MaxGroups
  /\ IF conflict
       THEN UNCHANGED <<gbookings, nextGroupId>>
       ELSE /\ gbookings' = gbookings \cup
                 {[groupId |-> nextGroupId, roomId |-> roomId,
                   email |-> email, date |-> dates[i]] : i \in DOMAIN dates}
            /\ nextGroupId' = nextGroupId + 1
  /\ last' = [Served("gpost", tok, 0, roomId, email,
                     IF conflict THEN FirstConflict(roomId, dates) ELSE 0,
                     IF conflict THEN 409 ELSE 201)
                EXCEPT !.dates = dates]
  /\ UNCHANGED <<bookingVars, rangeVars, userVars, procVars, catalogVars>>

-----------------------------------------------------------------------------
(* Reviews: both servers have the same route *)

\* app.post("/reviews"): insertOne of the body's fields.
PostReview(tok, roomId, userEmail) ==
  /\ VerifyToken(tok) = 0
  /\ nextReviewId <= MaxReviews
  /\ reviewsCollection' = reviewsCollection \cup
       {[id |-> nextReviewId, roomId |-> roomId, userEmail |-> userEmail]}
  /\ nextReviewId' = nextReviewId + 1
  /\ last' = Served("review", tok, 0, roomId, userEmail, 0, 200)
  /\ UNCHANGED <<roomsCollection, nextRoomId, bookingVars, rangeVars,
                 userVars, procVars, groupVars>>

-----------------------------------------------------------------------------
(* Users and roles of the single-date server, src/api/index.js: one handler
   at a time *)

\* The Authorization headers a caller can send: none, a token that fails
\* jwt.verify, or a token POST /jwt has signed.
UserTokens ==
  {[hdr |-> "none", email |-> "", role |-> ""],
   [hdr |-> "bad", email |-> "", role |-> ""]}
    \cup {[hdr |-> "ok", email |-> t.email, role |-> t.role] : t \in issued}

\* usersCollection.findOne({ email }): the documents it may return; a
\* collection scan returns the first match in insertion order.
FindUserByEmail(email) ==
  {u \in users : /\ u.email = email
                 /\ \A v \in users : v.email = email => u.id <= v.id}

\* verifyAdmin on req.decoded.role: the role signed into the token decides.
VerifyAdminByTokenRole(tok) ==
  IF tok.role = "admin" THEN 0 ELSE 403

\* verifyAdmin: next() only when the record found for the token's email has
\* role 'admin' (user?.role !== 'admin' answers 403, also when there is none).
VerifyAdmin(tok) ==
  IF \E u \in FindUserByEmail(tok.email) : u.role = "admin" THEN 0 ELSE 403

\* A request to a route guarded by verifyAdmin that the guard answers itself;
\* the payload of its token is kept with the response.
VerifyAdminRejects(op, tok) ==
  /\ VerifyToken(tok) = 0
  /\ VerifyAdmin(tok) # 0
  /\ last' = [Served(op, tok, 0, "", "", 0, VerifyAdmin(tok))
                EXCEPT !.token = [email |-> tok.email, role |-> tok.role]]
  /\ UNCHANGED <<bookingVars, rangeVars, userVars, procVars,
               catalogVars, groupVars>>

\* A new user document that takes the role 'admin'.
NewUserAsAdmin(id, email) ==
  [id |-> id, email |-> email, name |-> "N/A", role |-> "admin"]

\* The document POST /jwt inserts for an email that has none; the bodies of
\* the model carry no name (userInfo.name || 'N/A').
NewUser(id, email) ==
  [id |-> id, email |-> email, name |-> "N/A", role |-> "user"]

\* app.post("/jwt"): findOne, insertOne when there is no record, findOne
\* again, and a token signed over the email and role of the record found.
PostJwt(email) ==
  LET existingUser == FindUserByEmail(email)
      after == IF existingUser = {}
                 THEN users \cup {NewUser(nextUserId, email)}
                 ELSE users
      userForToken == CHOOSE u \in after :
                        /\ u.email = email
                        /\ \A v \in after : v.email = email => u.id <= v.id
      payload == [email |-> userForToken.email, role |-> userForToken.role]
  IN
  /\ existingUser = {} => nextUserId <= MaxUsers
  /\ users' = after
  /\ nextUserId' = IF existingUser = {} THEN nextUserId + 1 ELSE nextUserId
  /\ issued' = issued \cup {payload}
  /\ last' = [Served("jwt", NoHeader, 0, "", email, 0, 200)
                EXCEPT !.token = payload]
  /\ UNCHANGED <<bookingVars, rangeVars, procVars,
               catalogVars, groupVars>>

\* DELETE /admin/users/:id without the comparison of userToDelete.email with
\* the caller's email.
AdminDeleteUserStatusNoSelfCheck(tok, id) ==
  IF id = 0 THEN 500
  ELSE IF {u \in users : u.id = id} = {} THEN 500
  ELSE 200

\* The status the handler of DELETE /admin/users/:id answers with in the
\* current state: a malformed id, or userToDelete.email of no record, throws
\* into the catch (500); the caller's own record is refused (400).
AdminDeleteUserStatus(tok, id) ==
  IF id = 0 THEN 500
  ELSE IF {u \in users : u.id = id} = {} THEN 500
  ELSE IF \E u \in users : u.id = id /\ u.email = tok.email THEN 400
  ELSE 200

\* app.delete('/admin/users/:id')
AdminDeleteUser(tok, id) ==
  LET status == AdminDeleteUserStatus(tok, id) IN
  /\ VerifyToken(tok) = 0
  /\ VerifyAdmin(tok) = 0
  /\ users' = IF status = 200 THEN {u \in users : u.id # id} ELSE users
  /\ last' = Served("udelete", tok, id, "", "", 0, status)
  /\ UNCHANGED <<nextUserId, issued, bookingVars, rangeVars, procVars,
               catalogVars, groupVars>>

\* app.patch('/users/admin/:id'): updateOne({ _id }, { $set: { role: 'admin' } })
\* (the id is a well-formed ObjectId: the handler has no catch).
MakeAdmin(tok, id) ==
  /\ VerifyToken(tok) = 0
  /\ VerifyAdmin(tok) = 0
  /\ id # 0
  /\ users' = {IF u.id = id THEN [u EXCEPT !.role = "admin"] ELSE u : u \in users}
  /\ last' = [Served("makeadmin", tok, id, "", "", 0, 200) EXCEPT !.role = "admin"]
  /\ UNCHANGED <<nextUserId, issued, bookingVars, rangeVars, procVars,
               catalogVars, groupVars>>

\* app.patch('/admin/users/role/:id'): updateOne({ _id }, { $set: { role } })
\* with the role of the request body.
PatchUserRole(tok, id, role) ==
  LET status == IF id = 0 THEN 500 ELSE 200 IN
  /\ VerifyToken(tok) = 0
  /\ VerifyAdmin(tok) = 0
  /\ users' = IF status = 200
                THEN {IF u.id = id THEN [u EXCEPT !.role = role] ELSE u :
                        u \in users}
                ELSE users
  /\ last' = [Served("role", tok, id, "", "", 0, status) EXCEPT !.role = role]
  /\ UNCHANGED <<nextUserId, issued, bookingVars, rangeVars, procVars,
               catalogVars, groupVars>>

\* PATCH /user/profile with $set: req.body: every field of the body, a role
\* among them, is written.
PatchUserProfileSetsBody(tok, email, name) ==
  LET status == IF tok.email # email THEN 403 ELSE 200 IN
  /\ VerifyToken(tok) = 0
  /\ users' = IF status = 200
                THEN {IF u \in FindUserByEmail(email)
                        THEN [u EXCEPT !.name = name, !.role = "admin"]
                        ELSE u : u \in users}
                ELSE users
  /\ last' = Served("profile", tok, 0, "", email, 0, status)
  /\ UNCHANGED <<nextUserId, issued, bookingVars, rangeVars, procVars,
                 catalogVars, groupVars>>

\* app.patch('/user/profile'): 403 unless the body's email is the token's;
\* updateOne({ email }, { $set: { name, photoURL } }) on the first match.
PatchUserProfile(tok, email, name) ==
  LET status == IF tok.email # email THEN 403 ELSE 200 IN
  /\ VerifyToken(tok) = 0
  /\ users' = IF status = 200
                THEN {IF u \in FindUserByEmail(email)
                        THEN [u EXCEPT !.name = name]
                        ELSE u : u \in users}
                ELSE users
  /\ last' = Served("profile", tok, 0, "", email, 0, status)
  /\ UNCHANGED <<nextUserId, issued, bookingVars, rangeVars, procVars,
                 catalogVars, groupVars>>

-----------------------------------------------------------------------------
(* Rooms of the single-date server, src/api/index.js: one handler at a time *)

\* POST /rooms declared with verifyToken only.
PostRoomNoAdminGuard(tok, data) ==
  /\ VerifyToken(tok) = 0
  /\ nextRoomId <= MaxRoomDocs
  /\ roomsCollection' = roomsCollection \cup {[id |-> nextRoomId, data |-> data]}
  /\ nextRoomId' = nextRoomId + 1
  /\ last' = Served("roompost", tok, 0, "", "", 0, 200)
  /\ UNCHANGED <<reviewsCollection, nextReviewId, bookingVars, rangeVars,
                 userVars, procVars, groupVars>>

\* app.post('/rooms'): insertOne(req.body)
PostRoom(tok, data) ==
  /\ VerifyToken(tok) = 0
  /\ VerifyAdmin(tok) = 0
  /\ nextRoomId <= MaxRoomDocs
  /\ roomsCollection' = roomsCollection \cup {[id |-> nextRoomId, data |-> data]}
  /\ nextRoomId' = nextRoomId + 1
  /\ last' = Served("roompost", tok, 0, "", "", 0, 200)
  /\ UNCHANGED <<reviewsCollection, nextReviewId, bookingVars, rangeVars,
                 userVars, procVars, groupVars>>

\* app.patch('/rooms/:id'): updateOne({ _id }, { $set: req.body }); a
\* malformed id throws into the catch (500).
PatchRoom(tok, id, data) ==
  LET status == IF id = 0 THEN 500 ELSE 200 IN
  /\ VerifyToken(tok) = 0
  /\ VerifyAdmin(tok) = 0
  /\ roomsCollection' =
       IF status = 200
         THEN {IF r.id = id THEN [r EXCEPT !.data = data] ELSE r :
                 r \in roomsCollection}
         ELSE roomsCollection
  /\ last' = Served("roompatch", tok, id, "", "", 0, status)
  /\ UNCHANGED <<nextRoomId, reviewsCollection, nextReviewId, bookingVars,
                 rangeVars, userVars, procVars, groupVars>>

\* app.delete('/rooms/:id'): deleteOne({ _id })
DeleteRoom(tok, id) ==
  LET status == IF id = 0 THEN 500 ELSE 200 IN
  /\ VerifyToken(tok) = 0
  /\ VerifyAdmin(tok) = 0
  /\ roomsCollection' = IF status = 200
                          THEN {r \in roomsCollection : r.id # id}
                          ELSE roomsCollection
  /\ last' = Served("roomdelete", tok, id, "", "", 0, status)
  /\ UNCHANGED <<nextRoomId, reviewsCollection, nextReviewId, bookingVars,
                 rangeVars, userVars, procVars, groupVars>>

-----------------------------------------------------------------------------
(* POST /bookings of the single-date server with its awaits as separate
   steps: handlers in flight together interleave at them *)

NoBody == [roomId |-> "", email |-> "", date |-> 0]

\* The handlers in flight.
InFlight == {p \in Procs : pc[p] # "idle"}

\* app.post("/bookings"), entered after verifyToken: the body is read.
ReceivePostBooking(p, roomId, email, date) ==
  /\ pc[p] = "idle"
  /\ nextBookingId + Cardinality(InFlight) <= MaxBookings
  /\ pc' = [pc EXCEPT ![p] = "findUserBooking"]
  /\ req' = [req EXCEPT ![p] = [roomId |-> roomId, email |-> email, date |-> date]]
  /\ resp' = [resp EXCEPT ![p] = 0]
  /\ UNCHANGED <<bookingVars, rangeVars, userVars,
               catalogVars, groupVars, last>>

\* await bookingsCollection.findOne({ roomId, email, date }), then 400 or on
FindUserBooking(p) ==
  /\ pc[p] = "findUserBooking"
  /\ IF ExistingUserBooking(req[p].roomId, req[p].email, req[p].date) # {}
       THEN /\ pc' = [pc EXCEPT ![p] = "idle"]
            /\ resp' = [resp EXCEPT ![p] = 400]
       ELSE /\ pc' = [pc EXCEPT ![p] = "findRoomBooking"]
            /\ UNCHANGED resp
  /\ UNCHANGED <<req, bookingVars, rangeVars, userVars,
               catalogVars, groupVars, last>>

\* await bookingsCollection.findOne({ roomId, date }), then 409 or on
FindRoomBooking(p) ==
  /\ pc[p] = "findRoomBooking"
  /\ IF ExistingRoomBooking(req[p].roomId, req[p].date) # {}
       THEN /\ pc' = [pc EXCEPT ![p] = "idle"]
            /\ resp' = [resp EXCEPT ![p] = 409]
       ELSE /\ pc' = [pc EXCEPT ![p] = "insertOne"]
            /\ UNCHANGED resp
  /\ UNCHANGED <<req, bookingVars, rangeVars, userVars,
               catalogVars, groupVars, last>>

\* insertOne against a unique index on (roomId, date): the insert of a held
\* (roomId, date) throws into the catch (500) and stores nothing.
InsertBookingUnlessHeld(p) ==
  /\ pc[p] = "insertOne"
  /\ IF ExistingRoomBooking(req[p].roomId, req[p].date) # {}
       THEN /\ resp' = [resp EXCEPT ![p] = 500]
            /\ UNCHANGED bookingVars
       ELSE /\ bookings' = bookings \cup
                 {[id |-> nextBookingId, roomId |-> req[p].roomId,
                   email |-> req[p].email, date |-> req[p].date]}
            /\ nextBookingId' = nextBookingId + 1
            /\ resp' = [resp EXCEPT ![p] = 200]
  /\ pc' = [pc EXCEPT ![p] = "idle"]
  /\ UNCHANGED <<req, rangeVars, userVars,
               catalogVars, groupVars, last>>

\* await bookingsCollection.insertOne(bookingWithTimestamp); res.send(result)
InsertBooking(p) ==
  /\ pc[p] = "insertOne"
  /\ bookings' = bookings \cup
       {[id |-> nextBookingId, roomId |-> req[p].roomId,
         email |-> req[p].email, date |-> req[p].date]}
  /\ nextBookingId' = nextBookingId + 1
  /\ pc' = [pc EXCEPT ![p] = "idle"]
  /\ resp' = [resp EXCEPT ![p] = 200]
  /\ UNCHANGED <<req, rangeVars, userVars,
               catalogVars, groupVars, last>>

-----------------------------------------------------------------------------
(* POST /jwt of the single-date server with its awaits as separate steps *)

\* app.post("/jwt"): the body is read (the route has no guard).
ReceivePostJwt(p, email) ==
  /\ pc[p] = "idle"
  /\ nextUserId + Cardinality(InFlight) <= MaxUsers
  /\ pc' = [pc EXCEPT ![p] = "jwtFindExisting"]
  /\ req' = [req EXCEPT ![p] = [roomId |-> "", email |-> email, date |-> 0]]
  /\ resp' = [resp EXCEPT ![p] = 0]
  /\ UNCHANGED <<bookingVars, rangeVars, userVars, catalogVars, groupVars, last>>

\* const existingUser = await usersCollection.findOne({ email })
JwtFindExisting(p) ==
  /\ pc[p] = "jwtFindExisting"
  /\ pc' = [pc EXCEPT ![p] = IF FindUserByEmail(req[p].email) = {}
                                THEN "jwtInsertOne"
                                ELSE "jwtFindForToken"]
  /\ UNCHANGED <<req, resp, bookingVars, rangeVars, userVars,
                 catalogVars, groupVars, last>>

\* if (!existingUser) await usersCollection.insertOne(newUser)
JwtInsertOne(p) ==
  /\ pc[p] = "jwtInsertOne"
  /\ users' = users \cup {NewUser(nextUserId, req[p].email)}
  /\ nextUserId' = nextUserId + 1
  /\ pc' = [pc EXCEPT ![p] = "jwtFindForToken"]
  /\ UNCHANGED <<issued, req, resp, bookingVars, rangeVars,
                 catalogVars, groupVars, last>>

\* const userForToken = await usersCollection.findOne({ email }); jwt.sign;
\* res.send({ token }).  No route of this specification removes the record.
JwtFindForToken(p) ==
  /\ pc[p] = "jwtFindForToken"
  /\ \E userForToken \in FindUserByEmail(req[p].email) :
       issued' = issued \cup
         {[email |-> userForToken.email, role |-> userForToken.role]}
  /\ pc' = [pc EXCEPT ![p] = "idle"]
  /\ resp' = [resp EXCEPT ![p] = 200]
  /\ UNCHANGED <<users, nextUserId, req, bookingVars, rangeVars,
                 catalogVars, groupVars, last>>

-----------------------------------------------------------------------------
(* DELETE /admin/users/:id with its awaits as separate steps: the lookup of
   verifyAdmin, the findOne of the self-check and the deleteOne *)

\* app.delete('/admin/users/:id'), entered after verifyToken: req.decoded
\* and req.params.id are read.
ReceiveAdminDelete(p, tok, id) ==
  /\ pc[p] = "idle"
  /\ VerifyToken(tok) = 0
  /\ pc' = [pc EXCEPT ![p] = "verifyAdmin"]
  /\ req' = [req EXCEPT ![p] = [email |-> tok.email, id |-> id]]
  /\ resp' = [resp EXCEPT ![p] = 0]
  /\ UNCHANGED <<bookingVars, rangeVars, userVars, catalogVars, groupVars, last>>

\* verifyAdmin: const user = await usersCollection.findOne({ email }), then
\* 403 unless user?.role === 'admin'.
AdminDeleteVerifyAdmin(p) ==
  /\ pc[p] = "verifyAdmin"
  /\ IF \E user \in FindUserByEmail(req[p].email) : user.role = "admin"
       THEN /\ pc' = [pc EXCEPT ![p] = "deleteFindOne"]
            /\ UNCHANGED resp
       ELSE /\ pc' = [pc EXCEPT ![p] = "idle"]
            /\ resp' = [resp EXCEPT ![p] = 403]
  /\ UNCHANGED <<req, bookingVars, rangeVars, userVars,
                 catalogVars, groupVars, last>>

\* const userToDelete = await usersCollection.findOne({ _id }): a malformed
\* id, or userToDelete.email of no record, throws into the catch (500); the
\* caller's own record is refused (400).
AdminDeleteFindOne(p) ==
  LET userToDelete == {u \in users : u.id = req[p].id} IN
  /\ pc[p] = "deleteFindOne"
  /\ IF req[p].id = 0 \/ userToDelete = {}
       THEN /\ pc' = [pc EXCEPT ![p] = "idle"]
            /\ resp' = [resp EXCEPT ![p] = 500]
       ELSE IF \E u \in userToDelete : u.email = req[p].email
       THEN /\ pc' = [pc EXCEPT ![p] = "idle"]
            /\ resp' = [resp EXCEPT ![p] = 400]
       ELSE /\ pc' = [pc EXCEPT ![p] = "deleteOne"]
            /\ UNCHANGED resp
  /\ UNCHANGED <<req, bookingVars, rangeVars, userVars,
                 catalogVars, groupVars, last>>

\* await usersCollection.deleteOne({ _id }); res.send(result)
AdminDeleteOne(p) ==
  /\ pc[p] = "deleteOne"
  /\ users' = {u \in users : u.id # req[p].id}
  /\ pc' = [pc EXCEPT ![p] = "idle"]
  /\ resp' = [resp EXCEPT ![p] = 200]
  /\ UNCHANGED <<nextUserId, issued, req, bookingVars, rangeVars,
                 catalogVars, groupVars, last>>

-----------------------------------------------------------------------------
Init ==
  /\ bookings = {}
  /\ nextBookingId = 1
  /\ rbookings = {}
  /\ nextRangeId = 1
  /\ users = {}
  /\ nextUserId = 1
  /\ issued = {}
  /\ pc = [p \in Procs |-> "idle"]
  /\ req = [p \in Procs |-> NoBody]
  /\ resp = [p \in Procs |-> 0]
  /\ roomsCollection = {}
  /\ nextRoomId = 1
  /\ reviewsCollection = {}
  /\ nextReviewId = 1
  /\ gbookings = {}
  /\ nextGroupId = 1
  /\ last = NoRequest

Next ==
  \/ \E tok \in Tokens, op \in {"post", "delete", "patch"} :
       VerifyTokenRejects(op, tok)
  \/ \E tok \in Verified, r \in Rooms, e \in Emails, d \in Dates :
       PostBooking(tok, r, e, d)
  \/ \E tok \in Verified, id \in BookingIds : DeleteBooking(tok, id)
  \/ \E tok \in Verified, id \in BookingIds, r \in Rooms, d \in Dates :
       PatchBooking(tok, id, r, d)

Spec == Init /\ [][Next]_vars

\* The single-date server's POST /bookings and its three booking reads.
NextReads ==
  \/ \E tok \in Tokens, op \in {"post", "list", "ulist", "get"} :
       VerifyTokenRejects(op, tok)
  \/ \E tok \in Verified, r \in Rooms, e \in Emails, d \in Dates :
       PostBooking(tok, r, e, d)
  \/ \E tok \in Verified, e \in Emails : GetBookings(tok, e)
  \/ \E tok \in Verified, e \in Emails : GetUserBookings(tok, e)
  \/ \E tok \in Verified, id \in BookingIds : GetBooking(tok, id)

SpecReads == Init /\ [][NextReads]_vars

NextRange ==
  \/ \E tok \in Tokens, op \in {"rpost", "rdelete"} : VerifyTokenRejects(op, tok)
  \/ \E tok \in Verified, r \in Rooms, e \in Emails, ci \in Days, co \in Days :
       PostBookingRange(tok, r, e, ci, co)
  \/ \E tok \in Verified, id \in RangeIds : RangeDeleteBooking(tok, id)
  \/ \E r \in Rooms : GetRoomDates(r)

SpecRange == Init /\ [][NextRange]_vars

\* The $or query on its inputs: any one booking is stored (the handler stores
\* whatever checkIn and checkOut the first request of a room carries), and one
\* POST /bookings/range request is served.
InitOrQuery ==
  /\ bookings = {}
  /\ nextBookingId = 1
  /\ \E r \in Rooms, e \in Emails, ci \in Days, co \in Days :
       rbookings = {[id |-> 1, roomId |-> r, email |-> e,
                     checkIn |-> ci, checkOut |-> co]}
  /\ nextRangeId = 2
  /\ users = {}
  /\ nextUserId = 1
  /\ issued = {}
  /\ pc = [p \in Procs |-> "idle"]
  /\ req = [p \in Procs |-> NoBody]
  /\ resp = [p \in Procs |-> 0]
  /\ roomsCollection = {}
  /\ nextRoomId = 1
  /\ reviewsCollection = {}
  /\ nextReviewId = 1
  /\ gbookings = {}
  /\ nextGroupId = 1
  /\ last = NoRequest

NextOrQuery ==
  /\ last = NoRequest
  /\ \E tok \in Verified, r \in Rooms, e \in Emails, ci \in Days, co \in Days :
       PostBookingRange(tok, r, e, ci, co)

SpecOrQuery == InitOrQuery /\ [][NextOrQuery]_vars

\* The users collection of a deployment: no route makes the first admin (POST
\* /jwt writes role 'user', every role change is behind verifyAdmin), so a
\* deployment either has none or had one written into the store.
InitUsers ==
  /\ bookings = {}
  /\ nextBookingId = 1
  /\ rbookings = {}
  /\ nextRangeId = 1
  /\ \E seeded \in BOOLEAN :
       /\ users = IF seeded THEN {[id |-> 1, email |-> "a@x", name |-> "N/A",
                                    role |-> "admin"]}
                            ELSE {}
       /\ nextUserId = IF seeded THEN 2 ELSE 1
  /\ issued = {}
  /\ pc = [p \in Procs |-> "idle"]
  /\ req = [p \in Procs |-> NoBody]
  /\ resp = [p \in Procs |-> 0]
  /\ roomsCollection = {}
  /\ nextRoomId = 1
  /\ reviewsCollection = {}
  /\ nextReviewId = 1
  /\ gbookings = {}
  /\ nextGroupId = 1
  /\ last = NoRequest

NextUsers ==
  \/ \E e \in Emails : PostJwt(e)
  \/ \E tok \in UserTokens, op \in {"udelete", "makeadmin", "role"} :
       \/ VerifyTokenRejects(op, tok)
       \/ VerifyAdminRejects(op, tok)
  \/ \E tok \in UserTokens, id \in UserIds : AdminDeleteUser(tok, id)
  \/ \E tok \in UserTokens, id \in UserIds : MakeAdmin(tok, id)
  \/ \E tok \in UserTokens, id \in UserIds, role \in Roles :
       PatchUserRole(tok, id, role)

SpecUsers == InitUsers /\ [][NextUsers]_vars

NextConc ==
  \E p \in Procs :
    \/ \E r \in Rooms, e \in Emails, d \in Dates : ReceivePostBooking(p, r, e, d)
    \/ FindUserBooking(p)
    \/ FindRoomBooking(p)
    \/ InsertBooking(p)

SpecConc == Init /\ [][NextConc]_vars

NextJwtConc ==
  \E p \in Procs :
    \/ \E e \in Emails : ReceivePostJwt(p, e)
    \/ JwtFindExisting(p)
    \/ JwtInsertOne(p)
    \/ JwtFindForToken(p)

SpecJwtConc == InitUsers /\ [][NextJwtConc]_vars

\* A users collection with one record per email, at least one of them an
\* admin, and the tokens POST /jwt has signed for them.
InitAdmins ==
  /\ bookings = {}
  /\ nextBookingId = 1
  /\ rbookings = {}
  /\ nextRangeId = 1
  /\ \E ra \in {"user", "admin"}, rb \in {"user", "admin"} :
       /\ "admin" \in {ra, rb}
       /\ users = {[id |-> 1, email |-> "a@x", name |-> "N/A", role |-> ra],
                   [id |-> 2, email |-> "b@x", name |-> "N/A", role |-> rb]}
       /\ issued = {[email |-> "a@x", role |-> ra],
                    [email |-> "b@x", role |-> rb]}
  /\ nextUserId = 3
  /\ pc = [p \in Procs |-> "idle"]
  /\ req = [p \in Procs |-> NoBody]
  /\ resp = [p \in Procs |-> 0]
  /\ roomsCollection = {}
  /\ nextRoomId = 1
  /\ reviewsCollection = {}
  /\ nextReviewId = 1
  /\ gbookings = {}
  /\ nextGroupId = 1
  /\ last = NoRequest

NextDeleteConc ==
  \E p \in Procs :
    \/ \E tok \in UserTokens, id \in UserIds : ReceiveAdminDelete(p, tok, id)
    \/ AdminDeleteVerifyAdmin(p)
    \/ AdminDeleteFindOne(p)
    \/ AdminDeleteOne(p)

SpecDeleteConc == InitAdmins /\ [][NextDeleteConc]_vars

\* The routes that write users and rooms, one handler at a time; the bodies
\* of PATCH /admin/users/role/:id carry one of the two roles the code knows.
NextAdmin ==
  \/ \E e \in Emails : PostJwt(e)
  \/ \E tok \in UserTokens,
         op \in {"profile", "udelete", "makeadmin", "role",
                 "roompost", "roompatch", "roomdelete"} :
       VerifyTokenRejects(op, tok)
  \/ \E tok \in UserTokens,
         op \in {"udelete", "makeadmin", "role",
                 "roompost", "roompatch", "roomdelete"} :
       VerifyAdminRejects(op, tok)
  \/ \E tok \in UserTokens, e \in Emails, n \in ProfileNames :
       PatchUserProfile(tok, e, n)
  \/ \E tok \in UserTokens, id \in UserIds : AdminDeleteUser(tok, id)
  \/ \E tok \in UserTokens, id \in UserIds : MakeAdmin(tok, id)
  \/ \E tok \in UserTokens, id \in UserIds, role \in {"user", "admin"} :
       PatchUserRole(tok, id, role)
  \/ \E tok \in UserTokens, data \in RoomData : PostRoom(tok, data)
  \/ \E tok \in UserTokens, id \in RoomDocIds, data \in RoomData :
       PatchRoom(tok, id, data)
  \/ \E tok \in UserTokens, id \in RoomDocIds : DeleteRoom(tok, id)

SpecAdmin == InitUsers /\ [][NextAdmin]_vars

\* A deployment with a room and an admin in its store.
InitFrame ==
  /\ bookings = {}
  /\ nextBookingId = 1
  /\ rbookings = {}
  /\ nextRangeId = 1
  /\ users = {[id |-> 1, email |-> "a@x", name |-> "N/A", role |-> "admin"]}
  /\ nextUserId = 2
  /\ issued = {}
  /\ pc = [p \in Procs |-> "idle"]
  /\ req = [p \in Procs |-> NoBody]
  /\ resp = [p \in Procs |-> 0]
  /\ roomsCollection = {[id |-> 1, data |-> "d1"]}
  /\ nextRoomId = 2
  /\ reviewsCollection = {}
  /\ nextReviewId = 1
  /\ gbookings = {}
  /\ nextGroupId = 1
  /\ last = NoRequest

\* The routes that create bookings, and POST /reviews.  The two servers are
\* two programs: a store is served by one of them, so the bookings of a store
\* are all single-date or all date-range.  The date-range requests have
\* checkIn before checkOut, and a review carries its sender's email.
NextFrame ==
  \/ \E tok \in Tokens, op \in {"post", "rpost", "review"} :
       VerifyTokenRejects(op, tok)
  \/ /\ rbookings = {}
     /\ \E tok \in Verified, r \in Rooms, e \in Emails, d \in Dates :
          PostBooking(tok, r, e, d)
  \/ /\ bookings = {}
     /\ \E tok \in Verified, r \in Rooms, e \in Emails, ci \in Days, co \in Days :
          ci < co /\ PostBookingRange(tok, r, e, ci, co)
  \/ \E tok \in Verified, r \in Rooms : PostReview(tok, r, tok.email)

SpecFrame == InitFrame /\ [][NextFrame]_vars

NextDateSet ==
  \/ \E tok \in Tokens : VerifyTokenRejects("gpost", tok)
  \/ \E tok \in Verified, r \in Rooms, e \in Emails, ds \in DateLists :
       PostBookingDates(tok, r, e, ds)

SpecDateSet == Init /\ [][NextDateSet]_vars

-----------------------------------------------------------------------------
(* Claims about the single-date server, checked under Spec *)

\* C1: for every room R and date D at most one stored booking has
\* roomId = R and date = D.
C1_AtMostOneBookingPerRoomDate ==
  \A b1 \in bookings, b2 \in bookings :
    (b1.roomId = b2.roomId /\ b1.date = b2.date) => b1 = b2

\* The handler of POST /bookings answered the step's request (the guard let
\* it through).
PostBookingServed == last'.op = "post" /\ last'.caller # ""

\* C5: POST /bookings is rejected with 400 when a stored booking has the
\* identical (roomId, email, date), with 409 when a stored booking has the
\* same (roomId, date) under a different email, both leaving the collection
\* as it was, and is accepted only when no stored booking has (roomId, date).
C5_PostBookingRejections ==
  [][PostBookingServed =>
       /\ ExistingUserBooking(last'.roomId, last'.email, last'.date) # {}
            => (last'.status = 400 /\ bookings' = bookings)
       /\ (\E b \in bookings : /\ b.roomId = last'.roomId
                               /\ b.date = last'.date
                               /\ b.email # last'.email)
            => (last'.status = 409 /\ bookings' = bookings)
       /\ last'.status = 200
            => ExistingRoomBooking(last'.roomId, last'.date) = {}]_vars

\* The handler of PATCH /bookings/:id answered the step's request, and the
\* request names a stored booking.
PatchBookingServed ==
  /\ last'.op = "patch" /\ last'.caller # ""
  /\ \E b \in bookings : b.id = last'.id

\* C6: a change of booking b to date D is rejected with 409, leaving b as it
\* was, whenever a different stored booking of b's room holds D, and is
\* committed when no other booking of b's room holds D.
C6_PatchRechecksTheBookingsRoom ==
  [][PatchBookingServed =>
       LET b == CHOOSE x \in bookings : x.id = last'.id
           held == \E o \in bookings :
                     o.id # b.id /\ o.roomId = b.roomId /\ o.date = last'.date
       IN IF held
            THEN last'.status = 409 /\ bookings' = bookings
            ELSE /\ last'.status = 200
                 /\ bookings' = (bookings \ {b})
                                  \cup {[b EXCEPT !.date = last'.date]}]_vars

\* C8: a PATCH /bookings/:id whose verified token email differs from the
\* booking's stored email never modifies that booking.
C8_PatchOnlyByOwner ==
  [][last'.op = "patch" =>
       \A b \in bookings : b.email # last'.caller => b \in bookings']_vars

\* C17: a successful DELETE /bookings/:id removes the booking record of the
\* cancelled reservation (in this server a reservation is one record, of one
\* date) and nothing else: no stored record has its id afterwards, and every
\* other record, of the same or another room or user, is stored unchanged.
C17_DeleteRemovesOnlyThatBooking ==
  [][(last'.op = "delete" /\ last'.hdr = "ok" /\ last'.status = 200) =>
       /\ \E b \in bookings : b.id = last'.id /\ bookings' = bookings \ {b}
       /\ ~\E x \in bookings' : x.id = last'.id]_vars

\* C17's case: a booking was cancelled while its owner had another booking
\* stored, which is still there.
C17_OtherBookingOfCallerKept ==
  /\ last.op = "delete" /\ last.status = 200
  /\ \E b \in bookings : b.email = last.caller /\ b.id # last.id

\* C21: availability is derived only from the current bookings: when the
\* booking that held (R, D) has just been cancelled by DELETE /bookings/:id,
\* or moved to another date by PATCH /bookings/:id, and no other booking
\* holds (R, D), the next POST /bookings for (R, D), whoever sends it with a
\* verified token, is answered 200 and stored.
C21_FreedDateCanBeBookedAgain ==
  [][(/\ last'.op = "post" /\ last'.hdr = "ok"
      /\ last'.freed # <<>>
      /\ ~\E b \in bookings : /\ b.id # last.id
                               /\ b.roomId = last'.roomId
                               /\ b.date = last'.date)
       => /\ last'.status = 200
          /\ \E n \in bookings' \ bookings :
               n.roomId = last'.roomId /\ n.date = last'.date]_vars

\* C21's case: a user other than the one whose booking left (R, D) booked
\* (R, D) in the next request and holds it.
C21_RebookedByAnotherUser ==
  /\ last.op = "post" /\ last.status = 200
  /\ last.freed = <<last.roomId, last.date>>
  /\ \E n \in bookings :
       /\ n.id = nextBookingId - 1
       /\ n.roomId = last.roomId /\ n.date = last.date
       /\ n.email = last.email
  /\ last.email = "b@x" /\ last.caller = "b@x"
  /\ \A b \in bookings : b.id # nextBookingId - 1 => b.email = "a@x"

\* C20: every stored booking's email is the email of the verified token of
\* the request that created it: POST /bookings stores no booking under an
\* email other than the caller's.
C20_StoredEmailIsCallers ==
  [][(last'.op = "post" /\ last'.hdr = "ok" /\ last'.status = 200) =>
       \A n \in bookings' \ bookings : n.email = last'.caller]_vars

-----------------------------------------------------------------------------
(* Claims about the date-range server, checked under SpecRange (C3: under
   SpecOrQuery) *)

\* Half-open overlap of the intervals [a1, a2) and [b1, b2).
HalfOpenOverlap(a1, a2, b1, b2) == a1 < b2 /\ b1 < a2

\* C2: no two stored bookings of the same room have intervals
\* [checkIn, checkOut) that overlap under half-open semantics.
C2_NoOverlapInARoom ==
  \A b1 \in rbookings, b2 \in rbookings :
    (b1 # b2 /\ b1.roomId = b2.roomId)
      => ~HalfOpenOverlap(b1.checkIn, b1.checkOut, b2.checkIn, b2.checkOut)

\* C2's case: a second booking of a room was accepted beside a stored one,
\* both with checkIn < checkOut and a free day between them.
C2_TwoBookingsInARoom ==
  /\ last.op = "rpost" /\ last.status = 201
  /\ \E b1 \in rbookings, b2 \in rbookings :
       /\ b2.id = nextRangeId - 1 /\ b1.id # b2.id
       /\ b1.roomId = b2.roomId
       /\ b1.checkIn < b1.checkOut /\ b2.checkIn < b2.checkOut
       /\ (b1.checkOut < b2.checkIn \/ b2.checkOut < b1.checkIn)

\* C3: for a stored booking [e1, e2) and a request [n1, n2) for its room,
\* both with checkIn < checkOut, the $or query matches the booking, and the
\* request is answered 409, if and only if n1 < e2 and e1 < n2; a request
\* that starts on the booking's checkOut or ends on its checkIn, the booking
\* being the only one of the room, is answered 201.
C3_OrQueryIsHalfOpenOverlap ==
  \A x \in rbookings : \A n1 \in Days, n2 \in Days :
    (x.checkIn < x.checkOut /\ n1 < n2) =>
      /\ x \in ExistingRangeBooking(x.roomId, n1, n2)
           <=> HalfOpenOverlap(n1, n2, x.checkIn, x.checkOut)
      /\ HalfOpenOverlap(n1, n2, x.checkIn, x.checkOut)
           => PostBookingRangeStatus(x.roomId, n1, n2) = 409
      /\ ( /\ {y \in rbookings : y.roomId = x.roomId} = {x}
           /\ ~HalfOpenOverlap(n1, n2, x.checkIn, x.checkOut) )
           => PostBookingRangeStatus(x.roomId, n1, n2) = 201

\* C3's case: a request whose checkIn is a stored booking's checkOut, or
\* whose checkOut is a stored booking's checkIn, was accepted with 201.
C3_AdjacentAccepted ==
  /\ last.op = "rpost" /\ last.status = 201
  /\ \E x \in rbookings, n \in rbookings :
       /\ n.id = nextRangeId - 1 /\ x.id # n.id
       /\ x.roomId = n.roomId
       /\ x.checkIn < x.checkOut /\ n.checkIn < n.checkOut
       /\ (n.checkIn = x.checkOut \/ n.checkOut = x.checkIn)

\* C7: DELETE /bookings/:id removes a booking only when its stored email is
\* the email of the caller's verified token: 404 when no booking has the id,
\* 403 when the stored email differs, the collection unchanged in both.
C7_DeleteOnlyByOwner ==
  [][(last'.op = "rdelete" /\ last'.caller # "" /\ last'.id # 0) =>
       /\ {b \in rbookings : b.id = last'.id} = {}
            => (last'.status = 404 /\ rbookings' = rbookings)
       /\ (\E b \in rbookings : b.id = last'.id /\ b.email # last'.caller)
            => (last'.status = 403 /\ rbookings' = rbookings)
       /\ rbookings' # rbookings
            => \E b \in rbookings : b.id = last'.id /\ b.email = last'.caller
    ]_vars

\* C22: the booked-dates listing and the conflict checker agree: in every
\* state GET /bookings/room/R/dates lists exactly the dates d with
\* checkIn <= d < checkOut for some stored booking of R, and a POST
\* /bookings/range for R with checkIn < checkOut is accepted if and only if
\* none of the dates of [checkIn, checkOut) is in that list.
C22_ListingAgreesWithConflictCheck ==
  \A r \in Rooms :
    LET list == AllBookedDates(r)
        listed == {list[i] : i \in DOMAIN list}
    IN /\ listed = {d \in Days : \E b \in rbookings :
                       b.roomId = r /\ b.checkIn <= d /\ d < b.checkOut}
       /\ \A ci \in Days, co \in Days :
            ci < co =>
              (PostBookingRangeStatus(r, ci, co) = 201
                 <=> \A d \in ci..(co - 1) : d \notin listed)

\* C19: every stored date-range booking has checkIn strictly before
\* checkOut: a request with checkIn >= checkOut is never stored.
C19_CheckInBeforeCheckOut ==
  \A b \in rbookings : b.checkIn < b.checkOut

-----------------------------------------------------------------------------
(* Claims about concurrent POST /bookings requests, checked under SpecConc *)

\* C4: the insertOne of POST /bookings is a store operation of its own, not
\* tied to the two findOne checks before it: a handler that has passed its
\* checks answers 200 and stores one more document whatever was stored in the
\* meantime, so two requests for a free (roomId, date) whose checks both run
\* before either insert are both accepted and both stored.
C4_InsertAfterChecksAlwaysStores ==
  [][\A p \in Procs :
       (pc[p] = "insertOne" /\ pc'[p] # "insertOne") =>
         /\ resp'[p] = 200
         /\ Cardinality(bookings') = Cardinality(bookings) + 1
         /\ \E b \in bookings' \ bookings :
              /\ b.roomId = req[p].roomId
              /\ b.date = req[p].date
              /\ b.email = req[p].email]_vars

\* C4's case: two handlers have both answered 200 to requests for the same
\* (roomId, date), and two bookings with it are stored.
C4_BothAcceptedSameRoomDate ==
  \E p \in Procs, q \in Procs :
    /\ p # q
    /\ pc[p] = "idle" /\ pc[q] = "idle"
    /\ resp[p] = 200 /\ resp[q] = 200
    /\ req[p].roomId = req[q].roomId /\ req[p].date = req[q].date
    /\ \E b1 \in bookings, b2 \in bookings :
         /\ b1 # b2
         /\ b1.roomId = req[p].roomId /\ b1.date = req[p].date
         /\ b2.roomId = req[p].roomId /\ b2.date = req[p].date

-----------------------------------------------------------------------------
(* Claims about users and roles, checked under SpecUsers *)

\* C9: DELETE /admin/users/:id never deletes a user record whose email is the
\* email of the caller's verified token; when the handler runs on the id of
\* such a record it answers 400 and the users collection is unchanged.
C9_AdminCannotDeleteSelf ==
  [][(last'.op = "udelete" /\ last'.caller # "") =>
       /\ \A u \in users : u.email = last'.caller => u \in users'
       /\ (\E u \in users : u.id = last'.id /\ u.email = last'.caller)
            => (last'.status = 400 /\ users' = users)]_vars

\* C9's case: an admin asked for the deletion of their own record and was
\* answered 400.
C9_SelfDeleteRefused ==
  /\ last.op = "udelete" /\ last.status = 400
  /\ \E u \in users :
       u.id = last.id /\ u.email = last.caller /\ u.role = "admin"
  /\ Cardinality(users) >= 2

\* C10: POST /jwt for an email with no user record inserts exactly one record,
\* with that email and role 'user', and signs a token over that email and
\* role; for an email with a record it changes nothing in the collection and
\* signs a token over the record's stored role.
C10_PostJwtCreatesOnce ==
  [][last'.op = "jwt" =>
       IF {u \in users : u.email = last'.email} = {}
         THEN /\ \E n \in users' :
                   /\ n \notin users
                   /\ users' = users \cup {n}
                   /\ n.email = last'.email /\ n.role = "user"
              /\ last'.token = [email |-> last'.email, role |-> "user"]
         ELSE /\ users' = users
              /\ \E u \in users :
                   /\ u.email = last'.email
                   /\ last'.token = [email |-> u.email, role |-> u.role]]_vars

\* C10's case: a token was signed for an email whose record has a role other
\* than the default, beside a record POST /jwt created.
C10_TokenCarriesStoredRole ==
  /\ last.op = "jwt" /\ last.token.role = "admin"
  /\ \E u \in users : u.email = last.email /\ u.role = "admin"
  /\ \E v \in users : v.email # last.email /\ v.role = "user"

-----------------------------------------------------------------------------
(* Claims about concurrent POST /jwt requests, checked under SpecJwtConc *)

\* C11: email is a unique key of the users collection: under any interleaving
\* of POST /jwt requests, whose findOne and insertOne are separate store
\* operations, at most one user record exists per email.
C11_EmailIsUniqueKey ==
  \A u \in users, v \in users : u.email = v.email => u = v

-----------------------------------------------------------------------------
(* More claims about users and roles, checked under SpecUsers *)

\* The routes of the users collection behind verifyToken and verifyAdmin.
AdminUserRoutes == {"udelete", "makeadmin", "role"}

\* C12: verifyAdmin decides on the caller's stored role at the time of the
\* request, not on the role in the token: a request to an admin-only route
\* whose verified token email has no user record with role 'admin' (the role
\* was changed, or the record deleted) is answered 403 and changes nothing,
\* whatever role the token carries.
C12_GuardUsesStoredRole ==
  [][(last'.op \in AdminUserRoutes /\ last'.hdr = "ok"
        /\ ~\E u \in users : u.email = last'.caller /\ u.role = "admin")
       => (last'.status = 403 /\ users' = users)]_vars

\* C12's case: a user whose stored role is no longer 'admin' sent a token
\* signed while it was, and was answered 403.
C12_DemotedAdminRefused ==
  /\ last.op \in AdminUserRoutes /\ last.status = 403
  /\ last.token = [email |-> last.caller, role |-> "admin"]
  /\ \E u \in users : u.email = last.caller /\ u.role # "admin"

\* C13: in every reachable state every user record has role 'user' or role
\* 'admin'.
C13_RolesAreUserOrAdmin ==
  \A u \in users : u.role \in {"user", "admin"}

-----------------------------------------------------------------------------
(* Claims about the admin-only routes, checked under SpecAdmin *)

\* The routes declared with verifyToken and verifyAdmin.
AdminRoutes ==
  AdminUserRoutes \cup {"roompost", "roompatch", "roomdelete"}

\* A user's role differs after the step, or the user's record is gone.
RoleChangedOrUserDeleted ==
  \E u \in users :
    \/ ~\E v \in users' : v.id = u.id
    \/ \E v \in users' : v.id = u.id /\ v.role # u.role

\* C14: every creation, update or deletion of a room, every change of a
\* user's role and every deletion of a user record is caused by a request to
\* an admin-only route whose verified token email belongs to a user record
\* with role 'admin'; a request of any other caller, and any PATCH
\* /user/profile, leaves the rooms collection and every user's role unchanged.
C14_AdminOnlyMutations ==
  [][(roomsCollection' # roomsCollection \/ RoleChangedOrUserDeleted)
       => /\ last'.op \in AdminRoutes
          /\ last'.hdr = "ok"
          /\ \E u \in users : u.email = last'.caller /\ u.role = "admin"]_vars

\* C14's case: a user without the role 'admin' asked with a verified token
\* for the deletion of a room an admin had created, and the room is still
\* stored.
C14_NonAdminRoomDeleteRefused ==
  /\ last.op = "roomdelete" /\ last.hdr = "ok" /\ last.status = 403
  /\ \E u \in users : u.email = last.caller /\ u.role = "user"
  /\ roomsCollection # {}

\* The collections and counters of the store are as they were.
StoreUnchanged ==
  UNCHANGED <<bookingVars, rangeVars, userVars, catalogVars, groupVars>>

\* C15: on every route guarded by verifyToken a request without an
\* Authorization header is answered 401 and a request whose token fails
\* verification is answered 403; in both cases the handler is not run and no
\* collection is changed.  (POST /jwt is the route without the guard.)
C15_VerifyTokenRejections ==
  [][(last'.op \notin {"none", "jwt"} /\ last'.hdr # "ok") =>
       /\ last'.hdr = "none" => last'.status = 401
       /\ last'.hdr = "bad" => last'.status = 403
       /\ StoreUnchanged]_vars

\* C15's case: a request with a token that fails verification asked for the
\* deletion of a stored user and was answered 403, the users still stored.
C15_BadTokenRefused ==
  /\ last.op = "udelete" /\ last.hdr = "bad" /\ last.status = 403
  /\ Cardinality(users) >= 2
  /\ roomsCollection # {}

-----------------------------------------------------------------------------
(* Claims about what a booking request changes, checked under SpecFrame *)

\* C16: an accepted POST /bookings or POST /bookings/range adds exactly one
\* booking record, with the room of the request, and changes nothing else:
\* the bookings stored before, and the rooms, users and reviews collections,
\* are as they were; a rejected request adds no record.
C16_AcceptedBookingAddsOneRecord ==
  [][(last'.op \in {"post", "rpost"} /\ last'.hdr = "ok") =>
       /\ UNCHANGED <<users, roomsCollection, reviewsCollection>>
       /\ last'.op = "post" =>
            /\ rbookings' = rbookings
            /\ IF last'.status = 200
                 THEN \E n \in bookings' :
                        /\ n \notin bookings
                        /\ bookings' = bookings \cup {n}
                        /\ \A b \in bookings : b.id # n.id
                        /\ n.roomId = last'.roomId
                 ELSE bookings' = bookings
       /\ last'.op = "rpost" =>
            /\ bookings' = bookings
            /\ IF last'.status = 201
                 THEN \E n \in rbookings' :
                        /\ n \notin rbookings
                        /\ rbookings' = rbookings \cup {n}
                        /\ \A b \in rbookings : b.id # n.id
                        /\ n.roomId = last'.roomId
                 ELSE rbookings' = rbookings]_vars

\* C16's case: a date-range booking was accepted beside a stored one, in a
\* store that holds a room, a user and a review.
C16_SecondBookingAccepted ==
  /\ last.op = "rpost" /\ last.status = 201
  /\ Cardinality(rbookings) = 2
  /\ roomsCollection # {} /\ users # {} /\ reviewsCollection # {}

-----------------------------------------------------------------------------
(* Claims about date-set bookings, checked under SpecDateSet *)

\* C18: a booking request that carries a set of dates for a room is rejected
\* when the set shares a date with the dates booked for the room, the
\* rejection names the first of the request's dates that is booked, and no
\* record of the request is stored; when the sets are disjoint all dates of
\* the request are stored as one group.
C18_DateSetRejectedOnIntersection ==
  [][(last'.op = "gpost" /\ last'.hdr = "ok") =>
       LET ds == last'.dates
           requested == {ds[i] : i \in DOMAIN ds}
           booked == {b.date : b \in {x \in gbookings :
                                        x.roomId = last'.roomId}}
       IN IF requested \cap booked # {}
            THEN /\ last'.status = 409
                 /\ gbookings' = gbookings
                 /\ \E i \in DOMAIN ds :
                      /\ ds[i] = last'.date
                      /\ ds[i] \in booked
                      /\ \A j \in 1..(i - 1) : ds[j] \notin booked
            ELSE /\ last'.status = 201
                 /\ \E g \in 1..MaxGroups :
                      /\ \A b \in gbookings : b.groupId # g
                      /\ gbookings' = gbookings \cup
                           {[groupId |-> g, roomId |-> last'.roomId,
                             email |-> last'.email, date |-> d] :
                              d \in requested}]_vars

\* C18's case: a request of two dates whose second date only is booked for
\* the room was rejected naming that date, and none of its dates is stored
\* under a new group.
C18_SecondDateConflicts ==
  /\ last.op = "gpost" /\ last.status = 409
  /\ Len(last.dates) = 2 /\ last.date = last.dates[2]
  /\ ~\E b \in gbookings : b.roomId = last.roomId /\ b.date = last.dates[1]
  /\ \E b \in gbookings : b.roomId = last.roomId /\ b.date = last.dates[2]

\* C24: booking reads are confined to the owner: GET /bookings?email=E, GET
\* /bookings/user/E and GET /booking/:id send booking data only when the
\* email of the caller's verified token is E (respectively the stored email
\* of the requested booking) and answer 403 otherwise, so the response to a
\* caller is the one the same request gets over the caller's own bookings
\* alone: it does not depend on bookings stored under another email.
C24_ReadsConfinedToOwner ==
  [][(last'.op \in {"list", "ulist", "get"} /\ last'.hdr = "ok")
       => LET caller == [hdr |-> "ok", email |-> last'.caller]
              own == BookingsByEmail(bookings, last'.caller)
              subject == IF last'.op = "get"
                           THEN {b.email : b \in {x \in bookings : x.id = last'.id}}
                           ELSE {last'.email}
              response == [status |-> last'.status, data |-> last'.data]
          IN /\ last'.data # {} => subject = {last'.caller}
             /\ \A b \in last'.data : b.email = last'.caller
             /\ (subject # {} /\ subject # {last'.caller})
                  => last'.status = 403
             /\ response = IF last'.op = "get"
                             THEN GetBookingResponse(own, caller, last'.id)
                             ELSE GetBookingsResponse(own, caller, last'.email)]_vars

\* C23: the admin-delete-user endpoint cannot remove the last admin: from a
\* users collection with at least one admin and one record per email, under
\* any interleaving of concurrent DELETE /admin/users/:id requests at least
\* one user record with role 'admin' remains.
C23_AnAdminRemains ==
  \E u \in users : u.role = "admin"

=============================================================================
